---------------------------- MODULE Spec2Model ----------------------------
(***************************************************************************)
(* A model of crates/editor/src/display_map/crease_map.rs: the CreaseMap   *)
(* registry (insert / remove / snapshot) and the CreaseSnapshot queries    *)
(* (query_row / creases_in_range / crease_items_with_offsets).             *)
(*                                                                         *)
(* The SumTree cursor primitives and the multi-buffer anchors live in      *)
(* other crates; they are modelled from the specification's description.   *)
(***************************************************************************)
EXTENDS Integers, Sequences, FiniteSets, TLC

(***************************************************************************)
(* Bounds of the model.                                                    *)
(***************************************************************************)
\* rows of the buffer in Spec and SpecIso
NumRows == 2
\* identities one registry issues in Spec before insert is disabled
MaxId == 4
\* creases in one insert batch
MaxBatch == 2
\* identities in one remove call
MaxRemove == 2
\* rows of the buffer in SpecQuery
QRows == 3
\* identities one registry issues in SpecQuery
QMaxId == 2
\* identities one registry issues in SpecIso
IsoMaxId == 2
\* identities one registry issues in SpecUnsorted
UMaxId == 3
\* tree handles that may be alive at once (registry, reader, tree being built)
MaxTrees == 3

VARIABLES
    trees,          \* heap of SumTree<CreaseItem> values, by handle
    snapshot,       \* CreaseMap.snapshot.creases: handle of the current tree
    next_id,        \* CreaseMap.next_id
    id_to_range,    \* CreaseMap.id_to_range
    reader,         \* handle of the CreaseSnapshot a reader holds, or NoTree
    readerView,     \* history: entries of the reader's snapshot when it was taken
    issued,         \* history: every identity insert has returned, in issuance order
    last            \* the last call: its name, arguments and return value

vars == <<trees, snapshot, next_id, id_to_range, reader, readerView, issued, last>>

(***************************************************************************)
(* The buffer snapshot collaborator.  An anchor is its position in the     *)
(* anchor order.  Every row holds three anchors: the one anchor_before     *)
(* makes at column 0, one inside text that has since been deleted (it is   *)
(* invalid and resolves onto the row), and one anchor_after makes at the   *)
(* end of the row.  So resolving an anchor to its row is monotone in the   *)
(* anchor order, and anchor_before(row) is the least anchor of its row.    *)
(***************************************************************************)
AnchorsPerRow == 3

anchor_before(row) == row * AnchorsPerRow

anchor_after(row) == row * AnchorsPerRow + (AnchorsPerRow - 1)

to_point_row(anchor) == anchor \div AnchorsPerRow

is_valid(anchor) == anchor % AnchorsPerRow # 1

\* Ordering as an integer: -1 Less, 0 Equal, 1 Greater
AnchorCmp(a, b) == IF a < b THEN -1 ELSE IF a > b THEN 1 ELSE 0

\* AnchorRangeExt::cmp: by start, then by end descending
AnchorRangeCmp(a, b) ==
    IF AnchorCmp(a.start, b.start) # 0
    THEN AnchorCmp(a.start, b.start)
    ELSE AnchorCmp(b.end, a.end)

\* Crease::range
CreaseRange(crease) == crease.range

\* impl SeekTarget for Range<Anchor>
SeekRangeCmp(target, item) == AnchorRangeCmp(target, CreaseRange(item.crease))

\* impl SeekTarget for Anchor
SeekAnchorCmp(target, item) == AnchorCmp(target, CreaseRange(item.crease).start)

(***************************************************************************)
(* The SumTree cursor.  A cursor over tree t is the index of its current   *)
(* item; Len(t) + 1 is the end.                                            *)
(***************************************************************************)
RECURSIVE SeekRange(_, _, _)
\* cursor.seek / cursor.slice(&range, Bias::Left): first index >= i whose
\* item is not less than the target
SeekRange(t, i, target) ==
    IF i > Len(t) THEN i
    ELSE IF SeekRangeCmp(target, t[i]) > 0 THEN SeekRange(t, i + 1, target)
    ELSE i

RECURSIVE SeekAnchor(_, _, _)
\* cursor.seek(&anchor, Bias::Left)
SeekAnchor(t, i, target) ==
    IF i > Len(t) THEN i
    ELSE IF SeekAnchorCmp(target, t[i]) > 0 THEN SeekAnchor(t, i + 1, target)
    ELSE i

\* the items cursor.slice hands over when it moves from i to j
Slice(t, i, j) == SubSeq(t, i, j - 1)

\* cursor.suffix
Suffix(t, i) == SubSeq(t, i, Len(t))


(***************************************************************************)
(* Values.                                                                 *)
(***************************************************************************)
NoTree == -1

Handles == 0 .. (MaxTrees - 1)

\* A Crease is its anchor range; the rendering payload is never read.
Crease(s, e) == [range |-> [start |-> s, end |-> e]]

\* struct CreaseItem
CreaseItem(id, crease) == [id |-> id, crease |-> crease]

Range(f) == {f[x] : x \in DOMAIN f}

IdsOf(t) == {t[i].id : i \in 1 .. Len(t)}

\* the record of a call: name, arguments, return value
Call(op, creases, ids, new_ids, row, rows, found) ==
    [op |-> op, creases |-> creases, ids |-> ids, new_ids |-> new_ids,
     row |-> row, rows |-> rows, found |-> found]

NoRows == [start |-> 0, end |-> 0]

(***************************************************************************)
(* CreaseMap::insert                                                       *)
(***************************************************************************)
\* The state of the loop of insert: the cursor over the old tree, the tree
\* being built, the counter, the reverse index and the identities returned.
InsertState(cursor, new_creases, nid, map, new_ids) ==
    [cursor |-> cursor, new_creases |-> new_creases, next_id |-> nid,
     id_to_range |-> map, new_ids |-> new_ids]

\* a plausible slip: the new item is pushed without slicing the prefix first
InsertStepNoSlice(t, crease, st) ==
    LET id == st.next_id
    IN  InsertState(st.cursor,
                    Append(st.new_creases, CreaseItem(id, crease)),
                    st.next_id + 1,
                    (id :> CreaseRange(crease)) @@ st.id_to_range,
                    Append(st.new_ids, id))

\* a plausible slip: the counter is not advanced
InsertStepNoIncrement(t, crease, st) ==
    LET crease_range == CreaseRange(crease)
        j == SeekRange(t, st.cursor, crease_range)
        id == st.next_id
    IN  InsertState(j,
                    Append(st.new_creases \o Slice(t, st.cursor, j), CreaseItem(id, crease)),
                    st.next_id,
                    (id :> crease_range) @@ st.id_to_range,
                    Append(st.new_ids, id))

\* a plausible slip: the counter is advanced twice
InsertStepDoubleIncrement(t, crease, st) ==
    LET crease_range == CreaseRange(crease)
        j == SeekRange(t, st.cursor, crease_range)
        id == st.next_id
    IN  InsertState(j,
                    Append(st.new_creases \o Slice(t, st.cursor, j), CreaseItem(id, crease)),
                    st.next_id + 2,
                    (id :> crease_range) @@ st.id_to_range,
                    Append(st.new_ids, id))

\* a plausible slip: the identities are returned newest first
InsertStepIdsReversed(t, crease, st) ==
    LET crease_range == CreaseRange(crease)
        j == SeekRange(t, st.cursor, crease_range)
        id == st.next_id
    IN  InsertState(j,
                    Append(st.new_creases \o Slice(t, st.cursor, j), CreaseItem(id, crease)),
                    st.next_id + 1,
                    (id :> crease_range) @@ st.id_to_range,
                    <<id>> \o st.new_ids)

RECURSIVE SeekRangeBiasRight(_, _, _)
\* a seek that also passes the items equal to the target
SeekRangeBiasRight(t, i, target) ==
    IF i > Len(t) THEN i
    ELSE IF SeekRangeCmp(target, t[i]) >= 0 THEN SeekRangeBiasRight(t, i + 1, target)
    ELSE i

\* a plausible slip: the prefix is sliced with Bias::Right
InsertStepBiasRight(t, crease, st) ==
    LET crease_range == CreaseRange(crease)
        j == SeekRangeBiasRight(t, st.cursor, crease_range)
        id == st.next_id
    IN  InsertState(j,
                    Append(st.new_creases \o Slice(t, st.cursor, j), CreaseItem(id, crease)),
                    st.next_id + 1,
                    (id :> crease_range) @@ st.id_to_range,
                    Append(st.new_ids, id))

\* one iteration of `for crease in creases`
InsertStep(t, crease, st) ==
    LET crease_range == CreaseRange(crease)
        j == SeekRange(t, st.cursor, crease_range)
        id == st.next_id
    IN  InsertState(j,
                    Append(st.new_creases \o Slice(t, st.cursor, j), CreaseItem(id, crease)),
                    st.next_id + 1,
                    (id :> crease_range) @@ st.id_to_range,
                    Append(st.new_ids, id))

RECURSIVE InsertLoop(_, _, _, _)
\* the iterations from the k-th crease on
InsertLoop(t, creases, k, st) ==
    IF k > Len(creases) THEN st
    ELSE InsertLoop(t, creases, k + 1, InsertStep(t, creases[k], st))

\* a plausible slip: the suffix of the old tree is not appended
InsertCreasesNoSuffix(t, creases, nid, map) ==
    InsertLoop(t, creases, 1, InsertState(1, <<>>, nid, map, <<>>))

\* the body of insert on tree t: the loop, then the suffix
InsertCreases(t, creases, nid, map) ==
    LET st == InsertLoop(t, creases, 1, InsertState(1, <<>>, nid, map, <<>>))
    IN  [st EXCEPT !.new_creases = st.new_creases \o Suffix(t, st.cursor)]

(***************************************************************************)
(* CreaseMap::remove                                                       *)
(***************************************************************************)
RECURSIVE CollectRemovalsKeepUnknown(_, _, _, _)
RECURSIVE CollectRemovals(_, _, _, _)
\* a plausible slip: an identity the reverse index does not hold still gives
\* a removal, at the default range
CollectRemovalsKeepUnknown(ids, k, map, removals) ==
    IF k > Len(ids) THEN [removals |-> removals, id_to_range |-> map]
    ELSE CollectRemovalsKeepUnknown(ids, k + 1,
            [x \in DOMAIN map \ {ids[k]} |-> map[x]],
            Append(removals,
                   [id |-> ids[k],
                    range |-> IF ids[k] \in DOMAIN map THEN map[ids[k]]
                              ELSE [start |-> 0, end |-> 0]]))

\* `for id in ids`: take each identity's range out of the reverse index
CollectRemovals(ids, k, map, removals) ==
    IF k > Len(ids) THEN [removals |-> removals, id_to_range |-> map]
    ELSE IF ids[k] \in DOMAIN map
    THEN CollectRemovals(ids, k + 1,
                         [x \in DOMAIN map \ {ids[k]} |-> map[x]],
                         Append(removals, [id |-> ids[k], range |-> map[ids[k]]]))
    ELSE CollectRemovals(ids, k + 1, map, removals)

\* a plausible slip: the comparator has no tie-break on the identity
RemovalCmpNoTie(a, b) == AnchorRangeCmp(a.range, b.range)

\* the comparator of sort_unstable_by: by range, then by identity descending
RemovalCmp(a, b) ==
    IF AnchorRangeCmp(a.range, b.range) # 0
    THEN AnchorRangeCmp(a.range, b.range)
    ELSE AnchorCmp(b.id, a.id)

RECURSIVE SortInsert(_, _)
SortInsert(sorted, x) ==
    IF sorted = <<>> THEN <<x>>
    ELSE IF RemovalCmp(x, Head(sorted)) < 0 THEN <<x>> \o sorted
    ELSE <<Head(sorted)>> \o SortInsert(Tail(sorted), x)

RECURSIVE SortRemovals(_)
\* removals.sort_unstable_by(..)
SortRemovals(removals) ==
    IF removals = <<>> THEN <<>>
    ELSE SortInsert(SortRemovals(Tail(removals)), Head(removals))

RemoveState(cursor, new_creases) == [cursor |-> cursor, new_creases |-> new_creases]

RECURSIVE ScanForDropsPassed(_, _, _)
\* a plausible slip: the items stepped over before the match are not kept
ScanForDropsPassed(t, id, st) ==
    IF st.cursor > Len(t) THEN st
    ELSE IF t[st.cursor].id = id THEN RemoveState(st.cursor + 1, st.new_creases)
    ELSE ScanForDropsPassed(t, id, RemoveState(st.cursor + 1, st.new_creases))

RECURSIVE ScanFor(_, _, _)
\* `while let Some(item) = cursor.item()`: step over items, keeping each,
\* until the one with the identity has been stepped over and dropped
ScanFor(t, id, st) ==
    IF st.cursor > Len(t) THEN st
    ELSE IF t[st.cursor].id = id THEN RemoveState(st.cursor + 1, st.new_creases)
    ELSE ScanFor(t, id, RemoveState(st.cursor + 1, Append(st.new_creases, t[st.cursor])))

\* one iteration of `for (id, range) in removals`
RemoveStep(t, removal, st) ==
    LET j == SeekRange(t, st.cursor, removal.range)
    IN  ScanFor(t, removal.id,
                RemoveState(j, st.new_creases \o Slice(t, st.cursor, j)))

RECURSIVE RemoveLoop(_, _, _, _)
RemoveLoop(t, removals, k, st) ==
    IF k > Len(removals) THEN st
    ELSE RemoveLoop(t, removals, k + 1, RemoveStep(t, removals[k], st))

\* a plausible slip: the suffix of the old tree is not appended
RemoveIdsNoSuffix(t, ids, map) ==
    LET c == CollectRemovals(ids, 1, map, <<>>)
        st == RemoveLoop(t, SortRemovals(c.removals), 1, RemoveState(1, <<>>))
    IN  [new_creases |-> st.new_creases,
         id_to_range |-> c.id_to_range]

\* the body of remove on tree t and reverse index map
RemoveIds(t, ids, map) ==
    LET c == CollectRemovals(ids, 1, map, <<>>)
        st == RemoveLoop(t, SortRemovals(c.removals), 1, RemoveState(1, <<>>))
    IN  [new_creases |-> st.new_creases \o Suffix(t, st.cursor),
         id_to_range |-> c.id_to_range]

(***************************************************************************)
(* CreaseSnapshot: the queries.  An Option is a sequence of at most one    *)
(* item; query_row and creases_in_range hand out references to the crease  *)
(* of an item, modelled as the item.                                       *)
(***************************************************************************)
RECURSIVE QueryRowScanStopAtInvalid(_, _, _)
\* a plausible slip: an invalid start anchor on the row ends the scan
QueryRowScanStopAtInvalid(t, i, row) ==
    IF i > Len(t) THEN <<>>
    ELSE LET start == CreaseRange(t[i].crease).start
         IN  IF to_point_row(start) < row THEN QueryRowScanStopAtInvalid(t, i + 1, row)
             ELSE IF to_point_row(start) = row /\ is_valid(start) THEN <<t[i]>>
             ELSE <<>>

RECURSIVE QueryRowScanAnyAnchor(_, _, _)
\* a plausible slip: the start anchor's validity is not looked at
QueryRowScanAnyAnchor(t, i, row) ==
    IF i > Len(t) THEN <<>>
    ELSE LET start == CreaseRange(t[i].crease).start
         IN  IF to_point_row(start) < row THEN QueryRowScanAnyAnchor(t, i + 1, row)
             ELSE IF to_point_row(start) = row THEN <<t[i]>>
             ELSE <<>>

RECURSIVE QueryRowScan(_, _, _)
\* `while let Some(item) = cursor.item()` of query_row
QueryRowScan(t, i, row) ==
    IF i > Len(t) THEN <<>>
    ELSE LET start == CreaseRange(t[i].crease).start
         IN  IF to_point_row(start) < row THEN QueryRowScan(t, i + 1, row)
             ELSE IF to_point_row(start) = row
             THEN IF is_valid(start) THEN <<t[i]>>
                  ELSE QueryRowScan(t, i + 1, row)
             ELSE <<>>

\* CreaseSnapshot::query_row
query_row(t, row) == QueryRowScan(t, SeekAnchor(t, 1, anchor_before(row)), row)

RECURSIVE InRangeScanStopPastEnd(_, _, _)
\* a plausible slip: an item that ends past the range ends the scan
InRangeScanStopPastEnd(t, i, rows) ==
    IF i > Len(t) THEN <<>>
    ELSE LET crease_range == CreaseRange(t[i].crease)
             crease_start == to_point_row(crease_range.start)
             crease_end == to_point_row(crease_range.end)
         IN  IF crease_end > rows.end THEN <<>>
             ELSE IF crease_start >= rows.start /\ crease_end < rows.end
             THEN <<t[i]>> \o InRangeScanStopPastEnd(t, i + 1, rows)
             ELSE InRangeScanStopPastEnd(t, i + 1, rows)

RECURSIVE InRangeScan(_, _, _)
\* every item the iterator of creases_in_range yields from cursor i on
InRangeScan(t, i, rows) ==
    IF i > Len(t) THEN <<>>
    ELSE LET crease_range == CreaseRange(t[i].crease)
             crease_start == to_point_row(crease_range.start)
             crease_end == to_point_row(crease_range.end)
         IN  IF crease_end > rows.end THEN InRangeScan(t, i + 1, rows)
             ELSE IF crease_start >= rows.start /\ crease_end < rows.end
             THEN <<t[i]>> \o InRangeScan(t, i + 1, rows)
             ELSE InRangeScan(t, i + 1, rows)

\* CreaseSnapshot::creases_in_range, collected
creases_in_range(t, rows) ==
    InRangeScan(t, SeekAnchor(t, 1, anchor_before(rows.start)), rows)

\* Anchor::to_point
to_point(anchor) == [row |-> to_point_row(anchor), column |-> anchor % AnchorsPerRow]

RECURSIVE ItemsFromStepFirst(_, _)
\* a plausible slip: the loop steps the cursor before it reads the item
ItemsFromStepFirst(t, i) ==
    IF i + 1 > Len(t) THEN <<>>
    ELSE LET crease_range == CreaseRange(t[i + 1].crease)
         IN  <<[id |-> t[i + 1].id,
                range |-> [start |-> to_point(crease_range.start),
                           end |-> to_point(crease_range.end)]]>>
             \o ItemsFromStepFirst(t, i + 1)

RECURSIVE ItemsFrom(_, _)
\* the loop of crease_items_with_offsets from cursor i on
ItemsFrom(t, i) ==
    IF i > Len(t) THEN <<>>
    ELSE LET crease_range == CreaseRange(t[i].crease)
         IN  <<[id |-> t[i].id,
                range |-> [start |-> to_point(crease_range.start),
                           end |-> to_point(crease_range.end)]]>>
             \o ItemsFrom(t, i + 1)

\* CreaseSnapshot::crease_items_with_offsets: the first cursor.next() puts the
\* fresh cursor on the first item
crease_items_with_offsets(t) == ItemsFrom(t, 1)

(***************************************************************************)
(* The registry and its trees.                                             *)
(***************************************************************************)
\* the tree the registry's snapshot holds
Creases == trees[snapshot]

\* a handle no owner holds
FreshTree == CHOOSE h \in Handles : h \notin {snapshot, reader} /\ \A g \in Handles : g \notin {snapshot, reader} => h <= g

\* a plausible slip: the tree is rewritten in place, under its old handle
AssignCreasesInPlace(new_creases) ==
    /\ trees' = [trees EXCEPT ![snapshot] = new_creases]
    /\ snapshot' = snapshot

\* `self.snapshot.creases = new_creases`: the field takes the handle of the
\* tree just built; the old tree is freed unless a reader's clone holds it
AssignCreases(new_creases) ==
    /\ trees' = [h \in Handles |->
                    IF h = FreshTree THEN new_creases
                    ELSE IF h = snapshot /\ reader # snapshot THEN <<>>
                    ELSE trees[h]]
    /\ snapshot' = FreshTree

\* CreaseMap::new
Init ==
    /\ trees = [h \in Handles |-> <<>>]
    /\ snapshot = 0
    /\ next_id = 0
    /\ id_to_range = <<>>
    /\ reader = NoTree
    /\ readerView = <<>>
    /\ issued = <<>>
    /\ last = Call("new", <<>>, <<>>, <<>>, 0, NoRows, <<>>)

\* CreaseMap::insert(creases)
InsertOp(creases) ==
    LET r == InsertCreases(Creases, creases, next_id, id_to_range)
    IN  /\ AssignCreases(r.new_creases)
        /\ next_id' = r.next_id
        /\ id_to_range' = r.id_to_range
        /\ issued' = issued \o r.new_ids
        /\ last' = Call("insert", creases, <<>>, r.new_ids, 0, NoRows, <<>>)
        /\ UNCHANGED <<reader, readerView>>

\* CreaseMap::remove(ids)
RemoveOp(ids) ==
    LET r == RemoveIds(Creases, ids, id_to_range)
    IN  /\ AssignCreases(r.new_creases)
        /\ id_to_range' = r.id_to_range
        /\ last' = Call("remove", <<>>, ids, <<>>, 0, NoRows, <<>>)
        /\ UNCHANGED <<next_id, reader, readerView, issued>>

(***************************************************************************)
(* Inputs.                                                                 *)
(***************************************************************************)
\* the creases a caller builds over a buffer of n rows: from an anchor on a
\* row to the end of that row or of a later one
CreasesOver(n, startCols) ==
    {Crease(r1 * AnchorsPerRow + c, anchor_after(r2)) :
        <<r1, c, r2>> \in {x \in (0 .. n - 1) \X startCols \X (0 .. n - 1) : x[1] <= x[3]}}

SeqsUpTo(S, n) == UNION {[1 .. k -> S] : k \in 0 .. n}

IsSortedBatch(creases) ==
    \A i \in 1 .. Len(creases) - 1 :
        AnchorRangeCmp(CreaseRange(creases[i]), CreaseRange(creases[i + 1])) <= 0

\* batches sorted ascending by anchor range, as insert requires
SortedBatches(S, n) == {b \in SeqsUpTo(S, n) : IsSortedBatch(b)}

(***************************************************************************)
(* Spec: one registry under its single writer.                             *)
(***************************************************************************)
Insert ==
    \E creases \in SortedBatches(CreasesOver(NumRows, {0}), MaxBatch) :
        /\ next_id + Len(creases) <= MaxId
        /\ InsertOp(creases)

\* identities to remove: any issued so far, or one never issued (next_id)
Remove ==
    \E ids \in SeqsUpTo(0 .. next_id, MaxRemove) : RemoveOp(ids)

Next == Insert \/ Remove

Spec == Init /\ [][Next]_vars

(***************************************************************************)
(* SpecIso: the writer, and a reader that holds a snapshot.                *)
(***************************************************************************)
IsoInsert ==
    \E creases \in SortedBatches(CreasesOver(NumRows, {0}), MaxBatch) :
        /\ next_id + Len(creases) <= IsoMaxId
        /\ InsertOp(creases)

\* CreaseMap::snapshot: the reader takes a clone of the registry's snapshot,
\* which shares the tree; the snapshot it held before is dropped
TakeSnapshot ==
    /\ reader' = snapshot
    /\ readerView' = Creases
    /\ trees' = [h \in Handles |-> IF h = reader /\ reader # snapshot THEN <<>> ELSE trees[h]]
    /\ last' = Call("snapshot", <<>>, <<>>, <<>>, 0, NoRows, <<>>)
    /\ UNCHANGED <<snapshot, next_id, id_to_range, issued>>

\* the reader calls crease_items_with_offsets on the snapshot it holds
ReaderItems ==
    /\ reader # NoTree
    /\ last' = Call("reader_items", <<>>, <<>>, <<>>, 0, NoRows,
                    crease_items_with_offsets(trees[reader]))
    /\ UNCHANGED <<trees, snapshot, next_id, id_to_range, reader, readerView, issued>>

\* the reader calls query_row on the snapshot it holds
ReaderQueryRow ==
    /\ reader # NoTree
    /\ \E row \in 0 .. NumRows - 1 :
          last' = Call("reader_query_row", <<>>, <<>>, <<>>, row, NoRows,
                       query_row(trees[reader], row))
    /\ UNCHANGED <<trees, snapshot, next_id, id_to_range, reader, readerView, issued>>

\* the reader drops its snapshot
DropSnapshot ==
    /\ reader # NoTree
    /\ reader' = NoTree
    /\ readerView' = <<>>
    /\ trees' = [h \in Handles |-> IF h = reader /\ reader # snapshot THEN <<>> ELSE trees[h]]
    /\ last' = Call("drop", <<>>, <<>>, <<>>, 0, NoRows, <<>>)
    /\ UNCHANGED <<snapshot, next_id, id_to_range, issued>>

NextIso ==
    IsoInsert \/ Remove \/ TakeSnapshot \/ ReaderItems \/ ReaderQueryRow \/ DropSnapshot

SpecIso == Init /\ [][NextIso]_vars

(***************************************************************************)
(* SpecQuery: a registry over a buffer with invalid anchors, and queries   *)
(* of its current snapshot.                                                *)
(***************************************************************************)
QInsert ==
    \E creases \in SortedBatches(CreasesOver(QRows, 0 .. AnchorsPerRow - 1), MaxBatch) :
        /\ next_id + Len(creases) <= QMaxId
        /\ InsertOp(creases)

\* crease_map.snapshot().query_row(row)
QueryRow ==
    /\ \E row \in 0 .. QRows - 1 :
          last' = Call("query_row", <<>>, <<>>, <<>>, row, NoRows, query_row(Creases, row))
    /\ UNCHANGED <<trees, snapshot, next_id, id_to_range, reader, readerView, issued>>

\* crease_map.snapshot().creases_in_range(start..end)
CreasesInRange ==
    /\ \E s \in 0 .. QRows - 1, e \in 0 .. QRows :
          last' = Call("creases_in_range", <<>>, <<>>, <<>>, 0, [start |-> s, end |-> e],
                       creases_in_range(Creases, [start |-> s, end |-> e]))
    /\ UNCHANGED <<trees, snapshot, next_id, id_to_range, reader, readerView, issued>>

\* crease_map.snapshot().crease_items_with_offsets()
CreaseItemsWithOffsets ==
    /\ last' = Call("crease_items_with_offsets", <<>>, <<>>, <<>>, 0, NoRows,
                    crease_items_with_offsets(Creases))
    /\ UNCHANGED <<trees, snapshot, next_id, id_to_range, reader, readerView, issued>>

NextQuery == QInsert \/ Remove \/ QueryRow \/ CreasesInRange \/ CreaseItemsWithOffsets

SpecQuery == Init /\ [][NextQuery]_vars

(***************************************************************************)
(* SpecUnsorted: a registry whose caller does not sort its batches.        *)
(***************************************************************************)
UInsert ==
    \E creases \in SeqsUpTo(CreasesOver(NumRows, {0}), MaxBatch) :
        /\ next_id + Len(creases) <= UMaxId
        /\ InsertOp(creases)

NextUnsorted == UInsert \/ Remove

SpecUnsorted == Init /\ [][NextUnsorted]_vars

(***************************************************************************)
(* Properties of the registry.                                             *)
(***************************************************************************)
RangeOfItem(item) == CreaseRange(item.crease)

\* t without its i-th item
RemoveAt(t, i) == SubSeq(t, 1, i - 1) \o SubSeq(t, i + 1, Len(t))

\* the identities of ids that the reverse index holds, in the order given
LiveOnly(ids, map) == SelectSeq(ids, LAMBDA id : id \in DOMAIN map)

\* C1: after remove returns, the sequence holds no entry whose identity was
\* passed to it.
RemoveExcisesTargets ==
    last.op = "remove" => IdsOf(Creases) \cap Range(last.ids) = {}

\* C2: the identities of the entries of the sequence are exactly the keys of
\* id_to_range.
LockstepIds == IdsOf(Creases) = DOMAIN id_to_range

\* C3: an in-order traversal of the sequence yields anchor ranges in
\* non-decreasing comparator order.
OrderInvariant ==
    \A i \in 1 .. Len(Creases) - 1 :
        AnchorRangeCmp(RangeOfItem(Creases[i]), RangeOfItem(Creases[i + 1])) <= 0

\* C3 witness: inserts and a remove have left three entries, not all of one range
OrderWitness ==
    /\ last.op = "remove"
    /\ Len(Creases) >= 3
    /\ \E i, j \in 1 .. Len(Creases) : RangeOfItem(Creases[i]) # RangeOfItem(Creases[j])
    /\ \E i, j \in 1 .. Len(Creases) : i # j /\ RangeOfItem(Creases[i]) = RangeOfItem(Creases[j])

\* C4: the identities insert returns strictly increase in issuance order (so
\* they are pairwise distinct), an identity issued before - removed or not -
\* is never issued again, and next_id never decreases.
IdentitiesIncrease ==
    /\ [](\A i, j \in 1 .. Len(issued) : i < j => issued[i] < issued[j])
    /\ [][/\ next_id' >= next_id
          /\ \A k \in (Len(issued) + 1) .. Len(issued') :
                issued'[k] \notin Range(issued)]_vars

\* C4 witness: a second batch has been issued after an identity was removed
IdentitiesWitness ==
    /\ last.op = "insert"
    /\ Len(last.new_ids) = 2
    /\ Len(issued) >= 3
    /\ \E id \in Range(issued) : id \notin DOMAIN id_to_range /\ id \notin IdsOf(Creases)

\* C9: when two or more entries have the same range, remove called with the
\* identity of exactly one of them deletes that entry and no other.
RemoveOneOfSiblings ==
    [][\A i \in 1 .. Len(Creases) :
          (/\ last'.op = "remove"
           /\ last'.ids = <<Creases[i].id>>
           /\ \E j \in 1 .. Len(Creases) :
                 j # i /\ RangeOfItem(Creases[j]) = RangeOfItem(Creases[i]))
          => Creases' = RemoveAt(Creases, i)]_vars

\* C10: remove called only with identities id_to_range does not hold changes
\* neither the sequence nor id_to_range nor next_id; mixed with live
\* identities, they do not change what is removed.
RemoveUnknownIsNoOp ==
    [][last'.op = "remove" =>
          /\ Range(last'.ids) \cap DOMAIN id_to_range = {} =>
                /\ Creases' = Creases
                /\ id_to_range' = id_to_range
                /\ next_id' = next_id
          /\ Creases' = RemoveIds(Creases, LiveOnly(last'.ids, id_to_range), id_to_range).new_creases
          /\ id_to_range' = [id \in DOMAIN id_to_range \ Range(last'.ids) |-> id_to_range[id]]]_vars

\* C10 witness: a remove that named only identities never issued has
\* returned on a registry that holds entries
RemoveUnknownWitness ==
    /\ last.op = "remove"
    /\ Len(last.ids) = 2
    /\ \A k \in 1 .. Len(last.ids) : last.ids[k] \notin Range(issued)
    /\ Len(Creases) >= 2
    /\ IdsOf(Creases) = DOMAIN id_to_range

(***************************************************************************)
(* Properties of snapshots and queries.                                    *)
(***************************************************************************)
\* C5: a snapshot the reader took reports, after any later insert or remove
\* and between any of them, exactly the entries it held when it was taken, in
\* the same order; the registry's current snapshot holds what insert added.
SnapshotIsolation ==
    /\ reader # NoTree => trees[reader] = readerView
    /\ last.op = "reader_items" => last.found = crease_items_with_offsets(readerView)
    /\ last.op = "reader_query_row" => last.found = query_row(readerView, last.row)
    /\ last.op = "insert" =>
          \A k \in 1 .. Len(last.new_ids) :
             \E i \in 1 .. Len(Creases) :
                Creases[i] = CreaseItem(last.new_ids[k], last.creases[k])

\* C5 witness: the reader reads a non-empty snapshot that the registry has
\* since replaced by a different sequence
SnapshotIsolationWitness ==
    /\ last.op = "reader_items"
    /\ reader # NoTree
    /\ reader # snapshot
    /\ readerView # <<>>
    /\ Creases # <<>>
    /\ Creases # readerView
    /\ last.found = crease_items_with_offsets(readerView)

StartRow(item) == to_point_row(RangeOfItem(item).start)

EndRow(item) == to_point_row(RangeOfItem(item).end)

\* the positions of t whose start anchor is valid and resolves to row
ValidOnRow(t, row) ==
    {i \in 1 .. Len(t) : StartRow(t[i]) = row /\ is_valid(RangeOfItem(t[i]).start)}

\* a linear scan of the whole sequence for the first valid entry on row
FirstValidOnRow(t, row) ==
    IF ValidOnRow(t, row) = {} THEN <<>>
    ELSE <<t[CHOOSE i \in ValidOnRow(t, row) : \A j \in ValidOnRow(t, row) : i <= j]>>

\* C6: query_row(row) returns the first entry in sequence order whose start
\* anchor resolves to row and is valid, and none when there is no such entry.
QueryRowFirstValid ==
    last.op = "query_row" => last.found = FirstValidOnRow(Creases, last.row)

\* C6 witness: the first entry on the row has an invalid start anchor and the
\* valid entry after it is returned
QueryRowWitness ==
    /\ last.op = "query_row"
    /\ Len(Creases) = 2
    /\ StartRow(Creases[1]) = last.row
    /\ ~is_valid(RangeOfItem(Creases[1]).start)
    /\ last.found = <<Creases[2]>>

\* a registry that holds the one crease inserted into it
HoldsOneCrease ==
    /\ Len(Creases) = 1
    /\ DOMAIN id_to_range = {Creases[1].id}

\* C7 as stated: with one crease, from row r1 to row r2, in the registry,
\* query_row(r1) and query_row(r2) return it and every other row gives none.
RoundTripBothRows ==
    (HoldsOneCrease /\ last.op = "query_row") =>
        last.found = IF last.row \in {StartRow(Creases[1]), EndRow(Creases[1])}
                     THEN <<Creases[1]>> ELSE <<>>

\* C7 as amended: with one crease in the registry, query_row returns it for
\* the row its start anchor resolves to, if that anchor is valid, and none for
\* every other row, the row of its end included.
RoundTripStartRow ==
    (HoldsOneCrease /\ last.op = "query_row") =>
        last.found = IF last.row = StartRow(Creases[1]) /\ is_valid(RangeOfItem(Creases[1]).start)
                     THEN <<Creases[1]>> ELSE <<>>

\* C7 witness: the first crease of a registry, spanning two rows, is returned
\* for the row it starts on
RoundTripWitness ==
    /\ HoldsOneCrease
    /\ next_id = 1
    /\ last.op = "query_row"
    /\ StartRow(Creases[1]) # EndRow(Creases[1])
    /\ last.row = StartRow(Creases[1])
    /\ last.found = <<Creases[1]>>

InRows(rows, item) == StartRow(item) >= rows.start /\ EndRow(item) < rows.end

\* C8: creases_in_range(range) yields, each once and in sequence order,
\* exactly the entries that start on a row >= range.start and end on a row
\* < range.end.
CreasesInRangeExact ==
    last.op = "creases_in_range" =>
        last.found = SelectSeq(Creases, LAMBDA item : InRows(last.rows, item))

\* C8 witness: the first entry ends beyond the range and is skipped, and the
\* entry after it is yielded
CreasesInRangeWitness ==
    /\ last.op = "creases_in_range"
    /\ Len(Creases) = 2
    /\ StartRow(Creases[1]) >= last.rows.start
    /\ EndRow(Creases[1]) > last.rows.end
    /\ last.found = <<Creases[2]>>

(***************************************************************************)
(* Further properties of insert and remove.                                *)
(***************************************************************************)
\* the positions of t that hold identity id
PositionsOf(t, id) == {i \in 1 .. Len(t) : t[i].id = id}

\* C11: insert returns one identity per input crease, the i-th being the
\* identity of the one entry that holds the i-th crease, sorted batch or not;
\* an empty batch returns the empty list and changes neither the sequence nor
\* id_to_range nor next_id.
InsertReturnsPositionalIds ==
    /\ [](last.op = "insert" =>
            /\ Len(last.new_ids) = Len(last.creases)
            /\ \A k \in 1 .. Len(last.creases) :
                  /\ Cardinality(PositionsOf(Creases, last.new_ids[k])) = 1
                  /\ \A i \in PositionsOf(Creases, last.new_ids[k]) :
                        Creases[i].crease = last.creases[k])
    /\ [][(last'.op = "insert" /\ last'.creases = <<>>) =>
            /\ last'.new_ids = <<>>
            /\ Creases' = Creases
            /\ id_to_range' = id_to_range
            /\ next_id' = next_id]_vars

\* C11 witness: a batch of two creases given in descending order has been
\* inserted into a registry that held entries
PositionalIdsWitness ==
    /\ last.op = "insert"
    /\ Len(last.creases) = 2
    /\ AnchorRangeCmp(CreaseRange(last.creases[1]), CreaseRange(last.creases[2])) > 0
    /\ Len(Creases) = 3

IsSortedTree(t) ==
    \A i \in 1 .. Len(t) - 1 :
        AnchorRangeCmp(RangeOfItem(t[i]), RangeOfItem(t[i + 1])) <= 0

\* C17: insert of any batch, sorted or not, returns one fresh identity per
\* crease, and the new sequence holds every entry of the old one and every new
\* entry exactly once.
UnsortedInsertKeepsEntries ==
    [][last'.op = "insert" =>
          /\ Len(last'.new_ids) = Len(last'.creases)
          /\ \A k \in 1 .. Len(last'.new_ids) :
                /\ last'.new_ids[k] \notin IdsOf(Creases) \cup Range(issued)
                /\ \A l \in 1 .. Len(last'.new_ids) : k # l => last'.new_ids[k] # last'.new_ids[l]
                /\ \E i \in 1 .. Len(Creases') :
                      Creases'[i] = CreaseItem(last'.new_ids[k], last'.creases[k])
          /\ \A i \in 1 .. Len(Creases) : \E j \in 1 .. Len(Creases') : Creases'[j] = Creases[i]
          /\ Len(Creases') = Len(Creases) + Len(last'.creases)]_vars

\* C17 witness: a batch in descending order has been inserted and the
\* sequence is not in comparator order
UnsortedInsertWitness ==
    /\ last.op = "insert"
    /\ Len(last.creases) = 2
    /\ ~IsSortedBatch(last.creases)
    /\ ~IsSortedTree(Creases)
    /\ Len(Creases) = 3

\* C12: crease_items_with_offsets returns, for every entry of the snapshot
\* from the first on and in sequence order, its identity and its range
\* resolved to points; nothing is skipped or repeated.
ItemsWithOffsetsComplete ==
    last.op = "crease_items_with_offsets" =>
        /\ Len(last.found) = Len(Creases)
        /\ \A i \in 1 .. Len(Creases) :
              /\ last.found[i].id = Creases[i].id
              /\ last.found[i].range.start.row = StartRow(Creases[i])
              /\ last.found[i].range.end.row = EndRow(Creases[i])
              /\ last.found[i].range.start = to_point(RangeOfItem(Creases[i]).start)
              /\ last.found[i].range.end = to_point(RangeOfItem(Creases[i]).end)

\* C12 witness: the list for a snapshot of two entries, the first with an
\* invalid start anchor, has been returned
ItemsWithOffsetsWitness ==
    /\ last.op = "crease_items_with_offsets"
    /\ Len(Creases) = 2
    /\ ~is_valid(RangeOfItem(Creases[1]).start)
    /\ Len(last.found) = 2
    /\ last.found[1].id = Creases[1].id
    /\ last.found[1].id # last.found[2].id

\* C13: every key of id_to_range occurs in exactly one entry of the
\* sequence, the range recorded for it is the range of that entry's crease,
\* and no identity occurs in two entries.
KeysHaveOneEntry ==
    /\ \A id \in DOMAIN id_to_range :
          /\ Cardinality(PositionsOf(Creases, id)) = 1
          /\ \A i \in PositionsOf(Creases, id) :
                RangeOfItem(Creases[i]) = id_to_range[id]
    /\ \A id \in IdsOf(Creases) : Cardinality(PositionsOf(Creases, id)) = 1

\* C13 witness: after a remove that took one of two same-range siblings, two
\* keys are left, one of them the other sibling
KeysHaveOneEntryWitness ==
    /\ last.op = "remove"
    /\ Cardinality(DOMAIN id_to_range) = 2
    /\ \E id \in DOMAIN id_to_range : \E i \in PositionsOf(Creases, id) :
          /\ i > 1
          /\ RangeOfItem(Creases[i]) = id_to_range[id]
    /\ Len(Creases) = 2

\* the entries of t whose identity is in S, in the order of t
EntriesWithIds(t, S) == SelectSeq(t, LAMBDA item : item.id \in S)

\* the entries of t whose identity is not in S, in the order of t
EntriesWithoutIds(t, S) == SelectSeq(t, LAMBDA item : item.id \notin S)

\* C14: insert of a batch sorted ascending by range puts each new entry after
\* every existing entry of strictly smaller range and before every existing
\* entry of equal or greater range; the new entries keep their input order and
\* the existing entries keep their order, each present exactly once.
SortedInsertPlacement ==
    [][(last'.op = "insert" /\ IsSortedBatch(last'.creases)) =>
          /\ EntriesWithoutIds(Creases', Range(last'.new_ids)) = Creases
          /\ EntriesWithIds(Creases', Range(last'.new_ids))
                = [k \in 1 .. Len(last'.creases) |->
                      CreaseItem(last'.new_ids[k], last'.creases[k])]
          /\ \A i \in 1 .. Len(Creases') : \A j \in 1 .. Len(Creases') :
                (Creases'[i].id \in Range(last'.new_ids)
                    /\ Creases'[j].id \notin Range(last'.new_ids)) =>
                   IF AnchorRangeCmp(RangeOfItem(Creases'[j]), RangeOfItem(Creases'[i])) < 0
                   THEN j < i
                   ELSE i < j]_vars

\* C14 witness: a sorted batch of two creases has been inserted between an
\* existing entry of smaller range and an existing entry of equal range
SortedInsertWitness ==
    /\ last.op = "insert"
    /\ Len(last.creases) = 2
    /\ Len(Creases) = 4
    /\ Creases[1].id \notin Range(last.new_ids)
    /\ Creases[2].id = last.new_ids[1]
    /\ Creases[3].id = last.new_ids[2]
    /\ Creases[4].id \notin Range(last.new_ids)
    /\ AnchorRangeCmp(RangeOfItem(Creases[1]), RangeOfItem(Creases[2])) < 0
    /\ AnchorRangeCmp(RangeOfItem(Creases[3]), RangeOfItem(Creases[4])) = 0

\* C15: remove leaves every entry whose identity was not passed to it in the
\* sequence, exactly once and in the same relative order, and leaves next_id
\* and the id_to_range records of the identities not passed to it unchanged.
RemoveKeepsOthers ==
    [][last'.op = "remove" =>
          /\ EntriesWithoutIds(Creases', Range(last'.ids))
                = EntriesWithoutIds(Creases, Range(last'.ids))
          /\ \A id \in IdsOf(Creases) \ Range(last'.ids) :
                Cardinality(PositionsOf(Creases', id)) = 1
          /\ next_id' = next_id
          /\ DOMAIN id_to_range' \ Range(last'.ids) = DOMAIN id_to_range \ Range(last'.ids)
          /\ \A id \in DOMAIN id_to_range \ Range(last'.ids) :
                id_to_range'[id] = id_to_range[id]]_vars

\* C15 witness: identity 1 has been removed and the entries of identities 0
\* and 2, not passed to remove, are the sequence, with their records
RemoveKeepsOthersWitness ==
    /\ last.op = "remove"
    /\ last.ids = <<1>>
    /\ 1 \in Range(issued)
    /\ 1 \notin IdsOf(Creases)
    /\ Len(Creases) = 2
    /\ IdsOf(Creases) = {0, 2}
    /\ DOMAIN id_to_range = {0, 2}
    /\ AnchorRangeCmp(id_to_range[0], id_to_range[2]) # 0

\* the removals of remove(ids) in the order its loop processes them
SortedRemovalsOf(ids, map) == SortRemovals(CollectRemovals(ids, 1, map, <<>>).removals)

\* the cursor of remove over tree t before the k-th removal is processed
\* (k = Len(removals) + 1: when the loop is over)
CursorBefore(t, removals, k) ==
    RemoveLoop(t, SubSeq(removals, 1, k - 1), 1, RemoveState(1, <<>>)).cursor

\* the positions the scan for the k-th removal steps over, after the slice
ScanVisits(t, removals, k) ==
    SeekRange(t, CursorBefore(t, removals, k), removals[k].range)
        .. (CursorBefore(t, removals, k + 1) - 1)

\* every scan of a call steps only over entries not greater than its target,
\* ends on the target's entry, and leaves the later targets ahead of the cursor
ScanInBounds(t, removals) ==
    \A k \in 1 .. Len(removals) :
        /\ \A i \in ScanVisits(t, removals, k) :
              AnchorRangeCmp(RangeOfItem(t[i]), removals[k].range) <= 0
        /\ ScanVisits(t, removals, k) # {}
        /\ t[CursorBefore(t, removals, k + 1) - 1].id = removals[k].id
        /\ \A l \in (k + 1) .. Len(removals) :
              \A p \in PositionsOf(t, removals[l].id) :
                  CursorBefore(t, removals, k + 1) <= p

\* C16: while remove processes one (identity, range) pair, its scan steps only
\* over entries whose range is not greater than the pair's, stops at the entry
\* of the identity, and leaves the cursor at or before the entry of every
\* later pair of the sorted removals.
ScanStaysInTargetRange ==
    [][last'.op = "remove" =>
          ScanInBounds(Creases, SortedRemovalsOf(last'.ids, id_to_range))]_vars

\* what does hold of the scan: when no two removals of the call have the same
\* range, it stays in bounds
ScanInBoundsWithoutSiblings ==
    [][(/\ last'.op = "remove"
        /\ \A a, b \in Range(SortedRemovalsOf(last'.ids, id_to_range)) :
              a # b => AnchorRangeCmp(a.range, b.range) # 0) =>
          ScanInBounds(Creases, SortedRemovalsOf(last'.ids, id_to_range))]_vars

\* C18: remove processes its pairs ascending by range, ties by descending
\* identity, so its result depends only on the set of identities passed: any
\* other order of them, with or without repeats, gives the same registry.
RemoveDependsOnSetOnly ==
    [][last'.op = "remove" =>
          /\ \A k, l \in 1 .. Len(SortedRemovalsOf(last'.ids, id_to_range)) :
                k < l =>
                   LET a == SortedRemovalsOf(last'.ids, id_to_range)[k]
                       b == SortedRemovalsOf(last'.ids, id_to_range)[l]
                   IN  \/ AnchorRangeCmp(a.range, b.range) < 0
                       \/ AnchorRangeCmp(a.range, b.range) = 0 /\ a.id > b.id
          /\ \A ids2 \in SeqsUpTo(Range(last'.ids), MaxRemove + 1) :
                Range(ids2) = Range(last'.ids) =>
                   /\ RemoveIds(Creases, ids2, id_to_range).new_creases = Creases'
                   /\ RemoveIds(Creases, ids2, id_to_range).id_to_range = id_to_range']_vars

\* C18 witness: two different live identities have been removed in one call,
\* and so that call has another order and orders with a repeat
RemoveDependsOnSetWitness ==
    /\ last.op = "remove"
    /\ Len(last.ids) = 2
    /\ last.ids[1] < last.ids[2]
    /\ Range(last.ids) \subseteq Range(issued)
    /\ Range(last.ids) \cap DOMAIN id_to_range = {}
    /\ Range(last.ids) \cap IdsOf(Creases) = {}
    /\ Len(Creases) = 1

\* C19: next_id is the number of creases passed to insert so far (0 on a new
\* registry, advanced by the size of the batch on every insert), every
\* identity of id_to_range and of the sequence is below next_id, and remove
\* leaves next_id unchanged.
NextIdCountsInserted ==
    /\ [](last.op = "new" => next_id = 0)
    /\ [](next_id = Len(issued))
    /\ [](\A id \in DOMAIN id_to_range \cup IdsOf(Creases) : id < next_id)
    /\ [][last'.op = "insert" =>
            /\ next_id' = next_id + Len(last'.creases)
            /\ Len(issued') = Len(issued) + Len(last'.creases)]_vars
    /\ [][last'.op = "remove" => next_id' = next_id /\ issued' = issued]_vars

\* C19 witness: three creases have been inserted, two of them removed since
NextIdCountsWitness ==
    /\ last.op = "remove"
    /\ next_id = 3
    /\ Len(Creases) = 1
    /\ Cardinality(DOMAIN id_to_range) = 1
    /\ last.ids # <<>>
    /\ Range(last.ids) \subseteq Range(issued)

=============================================================================
